---- MODULE Spec2Model ----
(***************************************************************************)
(* The SWORD deposit lifecycle of the storage service                      *)
(* (locations/api/sword/views.py): one deposit of one space, the batch     *)
(* download workers spawned for it, the request handlers that act on it    *)
(* and the hand-off of its directory to the pipeline.                      *)
(***************************************************************************)
EXTENDS Integers, Sequences, FiniteSets, TLC

\* Bounds of the model.
MaxWorkers == 2
MaxUrls == 1
MaxStTasks == 2
MaxStAttempted == 2
MaxCreates == 5
MaxAips == 2
MaxBatchUrls == 3

Workers == 1..MaxWorkers
\* The request handler is process 0.
ReqProcs == {0}
SecondHandler == -1
Handlers == ReqProcs \cup {SecondHandler}
Procs == Workers \cup Handlers

\* File names of a deposit directory: 0 is the name used by uploads, i > 0 the
\* name the i-th content URL of a batch downloads to.
FileNames == 0..MaxBatchUrls
UploadContents == {"b1", "b2"}
Contents == {"absent", "dl"} \cup UploadContents
AipFiles == 1..MaxAips
Creators == {1, 2}
NoPending == [name |-> <<>>, path |-> <<>>]
NoFiles == [f \in FileNames |-> "absent"]

\* What Activate finds configured for the pipeline.
PipelineCfgs == {"configured", "no_credentials", "no_location", "many_locations"}
\* How the approval request ends: urlopen raises, or the pipeline answers with
\* a JSON body without "error", a JSON body with "error", or no JSON at all.
PipelineResponses == {"transport_failure", "approved", "error_json", "unparsable"}

VARIABLES
    spacePathExists,  \* os.path.isdir(space.path)
    uploadTemp,       \* the temporary file of an upload's body is on disk
    depRow,           \* the deposit Location row: "absent", "present", "deleted"
    rff,              \* Location.ready_for_finalization, as stored
    dct,              \* Location.deposit_completion_time is not null, as stored
    dirLoc,           \* where the deposit directory is: "none", "deposit", "watch", "removed"
    dirFiles,         \* its entries: file name -> content
    tasks,            \* the LocationDownloadTask rows, one per worker
    pc,               \* position of every worker and request handler
    wN,               \* len(object_content_urls) of a worker's batch
    wIdx,             \* URLs of the batch already attempted
    wCompleted,       \* the worker's local `completed`
    wSnapRff,         \* ready_for_finalization of the deposit object a worker read at its start
    fSnapRff,         \* ready_for_finalization of the deposit object read by _finalize_if_not_empty
    rOp,              \* the request a handler is serving
    resp,             \* the response the last step sent, NoResp if it sent none
    activation,       \* history: the Activate the process invoked in its current run: "no" for
                      \* none, then the pipeline configuration it met, then how its
                      \* approval request ended
    accepted,         \* history: some Activate returned a non-error approval outcome
    aPre,             \* history: the directory's entries when the process moved it
    stTasks,          \* input of the status computation (SpecStatus)
    stResult,         \* its result (SpecStatus)
    crDirs,           \* the directories that exist under the space path (SpecCreate)
    crLog,            \* the deposits created in the space, in order (SpecCreate)
    crPending,        \* per creating request, the name and padded path it holds (SpecCreateRace)
    space,            \* the Space object a protocol record refers to: verified, last_verified (SpecVerify)
    backend,          \* the protocol record: access_protocol, manually_mounted (SpecVerify)
    pathState,        \* what is at space.path: "missing", "dir" or "mount" (SpecVerify)
    now,              \* datetime.datetime.now(), counted in saves (SpecVerify)
    aipParent,        \* per AIP file, the directory of its destination: "missing", "exists", "blocked" (SpecStore)
    aipRsync,         \* per AIP file, how the rsync of store_aip went, "not_run" if none ran (SpecStore)
    aipResult         \* per AIP file, what store_aip returned, "not_called" before the call (SpecStore)

cfgVars == <<spacePathExists, uploadTemp>>
depVars == <<depRow, rff, dct>>
dirVars == <<dirLoc, dirFiles>>
wVars == <<wN, wIdx, wCompleted, wSnapRff>>
spaceVars == <<space, backend, pathState, now>>
aipVars == <<aipParent, aipRsync, aipResult>>
stVars == <<stTasks, stResult, crDirs, crLog, crPending, spaceVars, aipVars>>
vars == <<spacePathExists, uploadTemp, depRow, rff, dct, dirLoc, dirFiles,
          tasks, pc, wN, wIdx, wCompleted, wSnapRff, fSnapRff, rOp, resp,
          activation, accepted, aPre, stTasks, stResult, crDirs, crLog, crPending,
          space, backend, pathState, now, aipParent, aipRsync, aipResult>>

NoTask == [exists |-> FALSE, attempted |-> 0, completed |-> 0, done |-> FALSE, failed |-> FALSE]
NoResp == [op |-> "none", status |-> 0, term |-> ""]
Response(op, status) == [op |-> op, status |-> status, term |-> ""]

----------------------------------------------------------------------------
\* Downloading status.

\* LocationDownloadTask.downloading_status(): a task is failed when flagged
\* failed, incomplete while completed < attempted, complete otherwise.
task_downloading_status(t) ==
    IF t.failed THEN "failed"
    ELSE IF t.completed < t.attempted THEN "incomplete"
    ELSE "complete"

\* A status computation that does not look at the failed flag.
deposit_downloading_status_ignoring_failed(ts) ==
    IF \A i \in 1..Len(ts) : task_downloading_status(ts[i]) = "complete"
    THEN "complete"
    ELSE "incomplete"

\* A status computation in which a task short of downloads counts as complete.
deposit_downloading_status_ignoring_incomplete(ts) ==
    IF \E i \in 1..Len(ts) : task_downloading_status(ts[i]) = "failed"
    THEN "failed"
    ELSE "complete"

\* deposit_downloading_status over the sequence ts of the deposit's tasks.
deposit_downloading_status(ts) ==
    IF Len(ts) > 0
    THEN LET complete == \A i \in 1..Len(ts) : task_downloading_status(ts[i]) = "complete"
             failed == \E i \in 1..Len(ts) :
                          /\ task_downloading_status(ts[i]) # "complete"
                          /\ task_downloading_status(ts[i]) = "failed"
         IN  IF failed THEN "failed"
             ELSE IF complete THEN "complete"
             ELSE "incomplete"
    ELSE "complete"

\* LocationDownloadTask.objects.filter(location=deposit)
DepositTasks == SelectSeq([w \in Workers |-> tasks[w]], LAMBDA t : t.exists)

\* deposit_downloading_status(deposit_uuid): without the row the filter finds
\* no task
DepositStatus ==
    IF depRow = "present" THEN deposit_downloading_status(DepositTasks)
    ELSE deposit_downloading_status(<<>>)

----------------------------------------------------------------------------
\* Helpers of the handlers.

\* helpers.get_deposit(uuid) finds the row
get_deposit == depRow = "present"

\* Location.has_been_submitted_for_processing(): the content has been
\* relocated into the pipeline's watch directory.
has_been_submitted_for_processing == dirLoc = "watch"

\* len(os.listdir(deposit.full_path())) > 0
DirNonEmpty == \E f \in FileNames : dirFiles[f] # "absent"

IsWorker(p) == p \in Workers

\* How a run of process p ends: a worker stops for good, a handler answers.
\* how: "exception" (uncaught), "false" / "true" (result of _finalize_if_not_empty)
EndPc(p, how) ==
    IF IsWorker(p)
    THEN (CASE how = "exception" -> "dead"
            [] how = "false" -> "fin_empty"
            [] OTHER -> "fin_done")
    ELSE "idle"

EndResp(p, how) ==
    IF IsWorker(p) THEN NoResp
    ELSE (CASE how = "exception" -> Response(rOp[p], 500)
            [] how = "false" -> Response(rOp[p], 400)
            [] OTHER -> Response(rOp[p], 200))

\* Process p ends its run.
End(p, how) ==
    /\ pc' = [pc EXCEPT ![p] = EndPc(p, how)]
    /\ resp' = EndResp(p, how)
    /\ rOp' = IF IsWorker(p) THEN rOp ELSE [rOp EXCEPT ![p] = "none"]
    /\ aPre' = [aPre EXCEPT ![p] = NoFiles]

\* The lowest worker not yet used: Process(target=_fetch_content).start()
IdleWorkers == {w \in Workers : pc[w] = "unused"}
NextWorker == CHOOSE w \in IdleWorkers : \A v \in IdleWorkers : w <= v

----------------------------------------------------------------------------
\* Finalization: _finalize_if_not_empty and
\* _activate_transfer_and_request_approval_from_pipeline.

\* An Activate that does not look at the pipeline's API properties.
activate_validation_without_credentials_check(cfg) ==
    IF cfg \in {"no_location", "many_locations"} THEN "exception"
    ELSE "move"

\* A validation that does not look for the pipeline's processing location.
activate_validation_without_location_check(cfg) ==
    IF cfg = "no_credentials" THEN "exception"
    ELSE "move"

\* Validation at the start of Activate, lines 480-489: the API properties of
\* the pipeline, then its single CURRENTLY_PROCESSING location. cfg is the
\* configuration of the pipeline the call reads from the database.
activate_validation(cfg) ==
    IF cfg = "no_credentials" THEN "exception"
    ELSE IF cfg \in {"no_location", "many_locations"} THEN "exception"
    ELSE "move"

\* A _finalize_if_not_empty that does not look into the directory.
finalize_entry_without_empty_check ==
    IF ~get_deposit THEN "exception"
    ELSE IF dirLoc # "deposit" THEN "exception"
    ELSE "activate"

\* _finalize_if_not_empty up to the move: what the call does next.
\* "exception" before Activate, "false" for an empty directory, otherwise
\* Activate is invoked and either raises or goes on to move the directory.
finalize_entry ==
    IF ~get_deposit THEN "exception"
    ELSE IF dirLoc # "deposit" THEN "exception"
    ELSE IF ~DirNonEmpty THEN "false"
    ELSE "activate"

\* Process p calls _finalize_if_not_empty.
finalize_if_not_empty(p, cfg) ==
    LET e == finalize_entry IN
    /\ fSnapRff' = [fSnapRff EXCEPT ![p] = IF e = "activate" /\ activate_validation(cfg) = "move"
                                            THEN rff ELSE FALSE]
    /\ activation' = [activation EXCEPT ![p] = IF e = "activate" THEN cfg ELSE "no"]
    /\ IF e = "activate" /\ activate_validation(cfg) = "move"
       THEN /\ pc' = [pc EXCEPT ![p] = "act_move"]
            /\ resp' = NoResp
            /\ UNCHANGED <<rOp, aPre>>
       ELSE End(p, IF e = "activate" THEN "exception" ELSE e)

\* shutil.move(deposit.full_path(), destination_path)
activate_move(p) ==
    /\ resp = NoResp
    /\ pc[p] = "act_move"
    /\ IF dirLoc = "deposit"
       THEN /\ dirLoc' = "watch"
            /\ aPre' = [aPre EXCEPT ![p] = dirFiles]
            /\ pc' = [pc EXCEPT ![p] = "act_call"]
            /\ resp' = NoResp
            /\ UNCHANGED <<rOp, fSnapRff>>
       ELSE /\ End(p, "exception")
            /\ fSnapRff' = [fSnapRff EXCEPT ![p] = FALSE]
            /\ UNCHANGED dirLoc
    /\ UNCHANGED <<cfgVars, depVars, dirFiles, tasks, wVars, activation, accepted, stVars>>

\* The outcome of Activate after the approval request got answer o:
\* "error" is the dict built on a transport failure or the pipeline's own
\* error answer, "ok" a parsed answer without error, "exception" a body
\* json.loads cannot parse.
activate_outcome(o) ==
    CASE o = "transport_failure" -> "error"
      [] o = "error_json" -> "error"
      [] o = "approved" -> "ok"
      [] OTHER -> "exception"

\* An Activate that never moves the directory back.
activate_dir_after_without_move_back(o) == "watch"

\* Where the directory is after the approval request got answer o.
activate_dir_after(o) ==
    IF o = "transport_failure" THEN "deposit" ELSE "watch"

\* What the caller answers: _finalize_if_not_empty raises on an error outcome
\* (its error response names an undefined `request`), stamps and returns True
\* otherwise; the path-copy deposit answers 500 on an error, 200 otherwise.
caller_status(op, outcome) ==
    IF outcome = "ok" THEN 200 ELSE 500

\* A caller that stamps whatever Activate returned.
caller_stamps_on_any_outcome(op, outcome) == op # "pathcopy"

\* Does the caller stamp deposit_completion_time and save the row?
caller_stamps(op, outcome) == op # "pathcopy" /\ outcome = "ok"

\* time.sleep(4), urllib2.urlopen(approve_request) and what follows in
\* Activate and in its caller.
activate_call(p, o) ==
    LET op == IF IsWorker(p) THEN "finalize" ELSE rOp[p]
        outcome == activate_outcome(o)
    IN
    /\ resp = NoResp
    /\ pc[p] = "act_call"
    /\ dirLoc' = activate_dir_after(o)
    /\ accepted' = (accepted \/ outcome = "ok")
    /\ IF caller_stamps(op, outcome)
       THEN /\ dct' = TRUE
            /\ rff' = fSnapRff[p]
            /\ depRow' = "present"
       ELSE UNCHANGED depVars
    /\ pc' = [pc EXCEPT ![p] = IF IsWorker(p)
                                THEN (IF outcome = "ok" THEN "fin_done" ELSE "dead")
                                ELSE "idle"]
    /\ resp' = IF IsWorker(p) THEN NoResp ELSE Response(op, caller_status(op, outcome))
    /\ rOp' = IF IsWorker(p) THEN rOp ELSE [rOp EXCEPT ![p] = "none"]
    /\ aPre' = [aPre EXCEPT ![p] = NoFiles]
    /\ fSnapRff' = [fSnapRff EXCEPT ![p] = FALSE]
    /\ activation' = [activation EXCEPT ![p] = o]
    /\ UNCHANGED <<cfgVars, dirFiles, tasks, wVars, stVars>>

----------------------------------------------------------------------------
\* The batch download worker: _fetch_content.

\* lines 75-79: read the deposit, record the task
fetch_content_start(w) ==
    /\ resp = NoResp
    /\ pc[w] = "spawned"
    /\ IF get_deposit
       THEN /\ wSnapRff' = [wSnapRff EXCEPT ![w] = rff]
            /\ tasks' = [tasks EXCEPT ![w] = [exists |-> TRUE, attempted |-> wN[w],
                                              completed |-> 0, done |-> FALSE,
                                              failed |-> FALSE]]
            /\ pc' = [pc EXCEPT ![w] = "fetch"]
       ELSE /\ pc' = [pc EXCEPT ![w] = "dead"]
            /\ UNCHANGED <<wSnapRff, tasks>>
    /\ resp' = NoResp
    /\ UNCHANGED <<cfgVars, depVars, dirVars, wN, wIdx, wCompleted, fSnapRff, rOp,
                   activation, accepted, aPre, stVars>>

\* lines 85-92: one URL of the batch; ok is whether the download succeeded.
\* The move into the deposit directory raises when the directory is not
\* there, and the bare except swallows that like a failed download.
fetch_content_url(w, ok) ==
    /\ resp = NoResp
    /\ pc[w] = "fetch"
    /\ wIdx[w] < wN[w]
    /\ wIdx' = [wIdx EXCEPT ![w] = @ + 1]
    /\ IF ok /\ dirLoc = "deposit"
       THEN /\ dirFiles' = [dirFiles EXCEPT ![wIdx[w] + 1] = "dl"]
            /\ wCompleted' = [wCompleted EXCEPT ![w] = @ + 1]
       ELSE UNCHANGED <<dirFiles, wCompleted>>
    /\ resp' = NoResp
    /\ UNCHANGED <<cfgVars, depVars, dirLoc, tasks, pc, wN, wSnapRff, fSnapRff, rOp,
                   activation, accepted, aPre, stVars>>

\* An end of the batch that stores the successes as the attempted downloads too.
fetch_content_save_overwriting_attempted(w) ==
    /\ resp = NoResp
    /\ pc[w] = "fetch"
    /\ wIdx[w] = wN[w]
    /\ tasks' = [tasks EXCEPT ![w] = [exists |-> TRUE, attempted |-> wCompleted[w],
                                      completed |-> wCompleted[w], done |-> TRUE,
                                      failed |-> @.failed]]
    /\ pc' = [pc EXCEPT ![w] = "check"]
    /\ wN' = [wN EXCEPT ![w] = 0]
    /\ wIdx' = [wIdx EXCEPT ![w] = 0]
    /\ wCompleted' = [wCompleted EXCEPT ![w] = 0]
    /\ resp' = NoResp
    /\ UNCHANGED <<cfgVars, depVars, dirVars, wSnapRff, fSnapRff, rOp,
                   activation, accepted, aPre, stVars>>

\* An end of the batch that records the downloads but no completion time.
fetch_content_save_without_completion_time(w) ==
    /\ resp = NoResp
    /\ pc[w] = "fetch"
    /\ wIdx[w] = wN[w]
    /\ tasks' = [tasks EXCEPT ![w] = [exists |-> TRUE, attempted |-> @.attempted,
                                      completed |-> wCompleted[w], done |-> FALSE,
                                      failed |-> @.failed]]
    /\ pc' = [pc EXCEPT ![w] = "check"]
    /\ wN' = [wN EXCEPT ![w] = 0]
    /\ wIdx' = [wIdx EXCEPT ![w] = 0]
    /\ wCompleted' = [wCompleted EXCEPT ![w] = 0]
    /\ resp' = NoResp
    /\ UNCHANGED <<cfgVars, depVars, dirVars, wSnapRff, fSnapRff, rOp,
                   activation, accepted, aPre, stVars>>

\* lines 98-100: record the successful downloads and the completion time
fetch_content_save(w) ==
    /\ resp = NoResp
    /\ pc[w] = "fetch"
    /\ wIdx[w] = wN[w]
    /\ tasks' = [tasks EXCEPT ![w] = [exists |-> TRUE, attempted |-> @.attempted,
                                      completed |-> wCompleted[w], done |-> TRUE,
                                      failed |-> @.failed]]
    /\ pc' = [pc EXCEPT ![w] = "check"]
    /\ wN' = [wN EXCEPT ![w] = 0]
    /\ wIdx' = [wIdx EXCEPT ![w] = 0]
    /\ wCompleted' = [wCompleted EXCEPT ![w] = 0]
    /\ resp' = NoResp
    /\ UNCHANGED <<cfgVars, depVars, dirVars, wSnapRff, fSnapRff, rOp,
                   activation, accepted, aPre, stVars>>

\* line 104: the condition under which the worker finalizes
fetch_content_finalize_condition(w) ==
    wSnapRff[w] /\ DepositStatus = "complete"

\* lines 104-105
fetch_content_check(w, cfg) ==
    /\ resp = NoResp
    /\ pc[w] = "check"
    /\ IF fetch_content_finalize_condition(w)
       THEN finalize_if_not_empty(w, cfg)
       ELSE /\ pc' = [pc EXCEPT ![w] = "done"]
            /\ resp' = NoResp
            /\ UNCHANGED <<fSnapRff, activation, rOp, aPre>>
    /\ UNCHANGED <<cfgVars, depVars, dirVars, tasks, wVars, accepted, stVars>>

----------------------------------------------------------------------------
\* The request handlers. Requests are served one after the other by the
\* handler of ReqProcs; a view that neither changes the deposit nor is the
\* subject of a response rule (GET of a representation, an unsupported
\* method) is left out.

\* Handler r answers with the given status and is free again.
Reply(r, op, status) ==
    /\ pc' = [pc EXCEPT ![r] = "idle"]
    /\ rOp' = [rOp EXCEPT ![r] = "none"]
    /\ resp' = Response(op, status)

\* Everything but the handlers' positions and the response.
RestUnchanged ==
    UNCHANGED <<cfgVars, depVars, dirVars, tasks, wVars, fSnapRff,
                activation, accepted, aPre, stVars>>

\* collection(), POST: the requests the view turns down before it creates
\* anything. header: the In-Progress header ("none" when not sent); body:
\* "none", "bad" (XML that does not parse), "noname" (no LABEL), "mets";
\* params: how many of source_location / relative_path_to_files are set.
\* 0 stands for a request that goes on to create a deposit.
collection_post_status(header, body, params) ==
    IF header = "none" THEN 412
    ELSE IF body = "bad" THEN 400
    ELSE IF body = "noname" THEN 400
    ELSE IF body = "mets" THEN (IF ~spacePathExists THEN 500 ELSE 0)
    ELSE IF params = "one" THEN 200
    ELSE IF params = "both" THEN 0
    ELSE 412

collection_post_rejected(r, header, body, params) ==
    /\ resp = NoResp
    /\ pc[r] = "idle"
    /\ collection_post_status(header, body, params) # 0
    /\ Reply(r, "collection_post", collection_post_status(header, body, params))
    /\ RestUnchanged

\* _create_deposit_directory_and_db_entry: the directory with its first
\* entries, then the Location row
create_deposit_directory_and_db_entry(files) ==
    /\ dirLoc' = "deposit"
    /\ dirFiles' = files
    /\ depRow' = "present"
    /\ dct' = FALSE
    /\ spacePathExists' = TRUE
    /\ UNCHANGED uploadTemp

\* spawn_download_task: start a worker process for a batch of n URLs
spawn_download_task(r, n) ==
    /\ wN' = [wN EXCEPT ![NextWorker] = n]
    /\ pc' = [pc EXCEPT ![r] = "idle", ![NextWorker] = "spawned"]

\* A receipt that does not depend on the In-Progress header.
deposit_receipt_status_ignoring_header(header) == 200

\* lines 211-214: the status of the receipt of a created deposit
deposit_receipt_status(header) ==
    IF header = "true" THEN 201 ELSE 200

\* collection(), POST of a descriptor with a name and n content URLs,
\* lines 196-214
collection_post_descriptor(r, header, n) ==
    /\ resp = NoResp
    /\ pc[r] = "idle"
    /\ header \in {"true", "false"}
    /\ spacePathExists
    /\ depRow = "absent"
    /\ IdleWorkers # {}
    /\ create_deposit_directory_and_db_entry(NoFiles)
    /\ rff' = (header = "false")
    /\ spawn_download_task(r, n)
    /\ rOp' = [rOp EXCEPT ![r] = "none"]
    /\ resp' = Response("collection_post", deposit_receipt_status(header))
    /\ UNCHANGED <<tasks, wIdx, wCompleted, wSnapRff, fSnapRff,
                   activation, accepted, aPre, stVars>>

\* collection(), POST with source_location and relative_path_to_files:
\* deposit_from_location_relative_path. srcExists: the source directory
\* exists; src: its entries.
collection_post_path_copy(r, header, srcExists, src, cfg) ==
    /\ resp = NoResp
    /\ pc[r] = "idle"
    /\ header \in {"true", "false"}
    /\ depRow = "absent"
    /\ IF ~srcExists
       THEN /\ Reply(r, "pathcopy", 500)
            /\ RestUnchanged
       ELSE /\ create_deposit_directory_and_db_entry(src)
            /\ rff' = FALSE
            /\ activation' = [activation EXCEPT ![r] = cfg]
            /\ IF activate_validation(cfg) = "move"
               THEN /\ pc' = [pc EXCEPT ![r] = "act_move"]
                    /\ rOp' = [rOp EXCEPT ![r] = "pathcopy"]
                    /\ resp' = NoResp
               ELSE Reply(r, "pathcopy", 500)
            /\ UNCHANGED <<tasks, wVars, fSnapRff, accepted, aPre, stVars>>

\* Checks that do not ask whether the deposit exists.
deposit_guard_status_without_existence_check ==
    IF has_been_submitted_for_processing THEN 400 ELSE 0

\* Checks that do not ask whether the deposit was submitted.
deposit_guard_status_without_submitted_check ==
    IF ~get_deposit THEN 404 ELSE 0

\* deposit_edit() lines 370-376 and deposit_media() lines 549-555: the
\* checks every request on a deposit passes first. 0: the request goes on.
deposit_guard_status ==
    IF ~get_deposit THEN 404
    ELSE IF has_been_submitted_for_processing THEN 400
    ELSE 0

\* deposit_edit(), POST with a body, lines 394-400, and
\* _spawn_batch_download_and_flag_finalization_if_requested. body: "bad" or
\* "mets" with n content URLs; header: the In-Progress header.
deposit_edit_post_body(r, body, header, n) ==
    /\ resp = NoResp
    /\ pc[r] = "idle"
    /\ IF deposit_guard_status # 0
       THEN /\ Reply(r, "edit_post_body", deposit_guard_status)
            /\ RestUnchanged
       ELSE IF body = "bad" \/ header = "none"
       THEN /\ Reply(r, "edit_post_body", 500)
            /\ RestUnchanged
       ELSE /\ IdleWorkers # {}
            /\ rff' = IF header = "false" THEN TRUE ELSE rff
            /\ spawn_download_task(r, n)
            /\ rOp' = [rOp EXCEPT ![r] = "none"]
            /\ resp' = Response("edit_post_body", 200)
            /\ UNCHANGED <<cfgVars, depRow, dct, dirVars, tasks, wIdx, wCompleted, wSnapRff,
                           fSnapRff, activation, accepted, aPre, stVars>>

\* deposit_edit(), POST without a body and with In-Progress: false, lines
\* 370-376 and 401-404: the request passes the checks and goes on to
\* _finalize_or_mark_for_finalization
deposit_edit_finalize(r) ==
    /\ resp = NoResp
    /\ pc[r] = "idle"
    /\ IF deposit_guard_status # 0
       THEN Reply(r, "finalize", deposit_guard_status)
       ELSE /\ pc' = [pc EXCEPT ![r] = "finalize"]
            /\ rOp' = [rOp EXCEPT ![r] = "finalize"]
            /\ resp' = NoResp
    /\ RestUnchanged

\* _finalize_or_mark_for_finalization, lines 446-460
finalize_or_mark_for_finalization(r, cfg) ==
    /\ resp = NoResp
    /\ pc[r] = "finalize"
    /\ IF DepositStatus = "complete"
       THEN /\ finalize_if_not_empty(r, cfg)
            /\ UNCHANGED <<cfgVars, depVars, dirVars, tasks, wVars, accepted, stVars>>
       ELSE /\ rff' = TRUE
            /\ Reply(r, "finalize", 500)
            /\ UNCHANGED <<cfgVars, depRow, dct, dirVars, tasks, wVars, fSnapRff,
                           activation, accepted, aPre, stVars>>

\* deposit_edit(), DELETE, lines 370-376 and 411-418
deposit_edit_delete(r) ==
    /\ resp = NoResp
    /\ pc[r] = "idle"
    /\ IF deposit_guard_status # 0
       THEN /\ Reply(r, "edit_delete", deposit_guard_status)
            /\ RestUnchanged
       ELSE IF dirLoc = "deposit"
       THEN /\ dirLoc' = "removed"
            /\ dirFiles' = NoFiles
            /\ depRow' = "deleted"
            /\ Reply(r, "edit_delete", 204)
            /\ UNCHANGED <<cfgVars, rff, dct, tasks, wVars, fSnapRff,
                           activation, accepted, aPre, stVars>>
       ELSE /\ Reply(r, "edit_delete", 500)
            /\ RestUnchanged

\* os.path.exists(os.path.join(deposit.full_path(), filename))
FileExists(f) == dirLoc = "deposit" /\ dirFiles[f] # "absent"

\* helpers.get_file_md5_checksum of a file with content c
get_file_md5_checksum(c) ==
    CASE c = "b1" -> "d1"
      [] c = "b2" -> "d2"
      [] OTHER -> "d0"

\* The values of the Content-MD5 header: "none" when it is not sent.
Md5Headers == {"none"} \cup {get_file_md5_checksum(c) : c \in UploadContents}

\* An upload that does not ask whether the target file exists.
handle_upload_status_without_existence_check(replace, disp, md5, content) ==
    IF disp # "ok" THEN 400
    ELSE IF md5 # "none" /\ md5 # get_file_md5_checksum(content) THEN 400
    ELSE IF dirLoc # "deposit" THEN 500
    ELSE 0

\* An upload that stores the body without comparing digests.
handle_upload_status_without_md5_check(replace, disp, md5, content) ==
    IF disp # "ok" THEN 400
    ELSE IF replace /\ ~FileExists(0) THEN 400
    ELSE IF ~replace /\ FileExists(0) THEN 400
    ELSE IF dirLoc # "deposit" THEN 500
    ELSE 0

\* _handle_upload_request and _handle_upload_request_with_potential_md5_checksum:
\* the status of an upload of the body content. disp: the Content-Disposition
\* header is "none", "nofilename" or "ok"; md5: the Content-MD5 header.
\* 0 stands for the success status of the method.
handle_upload_status(replace, disp, md5, content) ==
    IF disp # "ok" THEN 400
    ELSE IF replace /\ ~FileExists(0) THEN 400
    ELSE IF ~replace /\ FileExists(0) THEN 400
    ELSE IF md5 # "none" /\ md5 # get_file_md5_checksum(content) THEN 400
    ELSE IF dirLoc # "deposit" THEN 500
    ELSE 0

\* Is the temporary file written at line 619 still on disk when the upload
\* returns? It is removed at lines 623, 628 and 632, and left when copyfile
\* raises.
handle_upload_temp_left(status) == status = 500

\* deposit_media(), PUT (replace) and POST, lines 549-564
deposit_media_upload(r, replace, disp, md5, content) ==
    LET op == IF replace THEN "media_put" ELSE "media_post"
        st == IF deposit_guard_status # 0 THEN deposit_guard_status
              ELSE handle_upload_status(replace, disp, md5, content)
    IN
    /\ resp = NoResp
    /\ pc[r] = "idle"
    /\ IF st = 0
       THEN /\ dirFiles' = [dirFiles EXCEPT ![0] = content]
            /\ Reply(r, op, IF replace THEN 204 ELSE 201)
       ELSE /\ Reply(r, op, st)
            /\ UNCHANGED dirFiles
    /\ uploadTemp' = (uploadTemp \/ (deposit_guard_status = 0 /\ handle_upload_temp_left(st)))
    /\ UNCHANGED <<spacePathExists, depVars, dirLoc, tasks, wVars, fSnapRff,
                   activation, accepted, aPre, stVars>>

\* A DELETE that empties the directory also when one file is named.
deposit_media_delete_removing_everything(r, all, f) ==
    /\ resp = NoResp
    /\ pc[r] = "idle"
    /\ IF deposit_guard_status # 0
       THEN /\ Reply(r, "media_delete", deposit_guard_status)
            /\ UNCHANGED dirFiles
       ELSE IF all \/ FileExists(f)
       THEN IF dirLoc = "deposit"
            THEN /\ dirFiles' = NoFiles
                 /\ Reply(r, "media_delete", 204)
            ELSE /\ Reply(r, "media_delete", 500)
                 /\ UNCHANGED dirFiles
       ELSE /\ Reply(r, "media_delete", 404)
            /\ UNCHANGED dirFiles
    /\ UNCHANGED <<cfgVars, depVars, dirLoc, tasks, wVars, fSnapRff,
                   activation, accepted, aPre, stVars>>

\* deposit_media(), DELETE, lines 549-555 and 565-582. all: no filename was
\* given; f: the filename otherwise
deposit_media_delete(r, all, f) ==
    /\ resp = NoResp
    /\ pc[r] = "idle"
    /\ IF deposit_guard_status # 0
       THEN /\ Reply(r, "media_delete", deposit_guard_status)
            /\ UNCHANGED dirFiles
       ELSE IF all
       THEN IF dirLoc = "deposit"
            THEN /\ dirFiles' = NoFiles
                 /\ Reply(r, "media_delete", 204)
            ELSE /\ Reply(r, "media_delete", 500)
                 /\ UNCHANGED dirFiles
       ELSE IF FileExists(f)
            THEN /\ dirFiles' = [dirFiles EXCEPT ![f] = "absent"]
                 /\ Reply(r, "media_delete", 204)
            ELSE /\ Reply(r, "media_delete", 404)
                 /\ UNCHANGED dirFiles
    /\ UNCHANGED <<cfgVars, depVars, dirLoc, tasks, wVars, fSnapRff,
                   activation, accepted, aPre, stVars>>

\* deposit_state(), GET, lines 640-652
deposit_state(r) ==
    /\ resp = NoResp
    /\ pc[r] = "idle"
    /\ pc' = pc
    /\ rOp' = rOp
    /\ resp' = IF ~get_deposit THEN Response("state", 404)
               ELSE [op |-> "state", status |-> 200, term |-> DepositStatus]
    /\ RestUnchanged

----------------------------------------------------------------------------
Init ==
    /\ spacePathExists \in BOOLEAN
    /\ uploadTemp = FALSE
    /\ depRow = "absent"
    /\ rff = FALSE
    /\ dct = FALSE
    /\ dirLoc = "none"
    /\ dirFiles = NoFiles
    /\ tasks = [w \in Workers |-> NoTask]
    /\ pc = [p \in Procs |-> IF IsWorker(p) THEN "unused" ELSE "idle"]
    /\ wN = [w \in Workers |-> 0]
    /\ wIdx = [w \in Workers |-> 0]
    /\ wCompleted = [w \in Workers |-> 0]
    /\ wSnapRff = [w \in Workers |-> FALSE]
    /\ fSnapRff = [p \in Procs |-> FALSE]
    /\ rOp = [r \in Handlers |-> "none"]
    /\ resp = NoResp
    /\ activation = [p \in Procs |-> "no"]
    /\ accepted = FALSE
    /\ aPre = [p \in Procs |-> NoFiles]
    /\ stTasks = <<>>
    /\ stResult = "none"
    /\ crDirs = {}
    /\ crLog = <<>>
    /\ crPending = [c \in Creators |-> NoPending]
    /\ space = [verified |-> FALSE, last_verified |-> 0]
    /\ backend = [access_protocol |-> "FS", manually_mounted |-> FALSE]
    /\ pathState = "dir"
    /\ now = 0
    /\ aipParent = [f \in AipFiles |-> "exists"]
    /\ aipRsync = [f \in AipFiles |-> "not_run"]
    /\ aipResult = [f \in AipFiles |-> "not_called"]

----------------------------------------------------------------------------
\* The response of the last step reaches the client.
deliver_response ==
    /\ resp # NoResp
    /\ resp' = NoResp
    /\ activation' = [p \in Procs |-> IF IsWorker(p) THEN activation[p] ELSE "no"]
    /\ UNCHANGED <<cfgVars, depVars, dirVars, tasks, pc, wVars, fSnapRff, rOp,
                   accepted, aPre, stVars>>

----------------------------------------------------------------------------
Headers == {"none", "true", "false"}
SourceDirs == {NoFiles, [NoFiles EXCEPT ![0] = "b1"]}

Next ==
    \/ \E w \in Workers : fetch_content_start(w)
    \/ \E w \in Workers, ok \in BOOLEAN : fetch_content_url(w, ok)
    \/ \E w \in Workers : fetch_content_save(w)
    \/ \E w \in Workers, cfg \in PipelineCfgs : fetch_content_check(w, cfg)
    \/ \E p \in Procs : activate_move(p)
    \/ \E p \in Procs, o \in PipelineResponses : activate_call(p, o)
    \/ \E r \in ReqProcs, h \in Headers, b \in {"none", "bad", "noname", "mets"},
          q \in {"none", "one", "both"} : collection_post_rejected(r, h, b, q)
    \/ \E r \in ReqProcs, h \in Headers, n \in 0..MaxUrls : collection_post_descriptor(r, h, n)
    \/ \E r \in ReqProcs, h \in Headers, e \in BOOLEAN, src \in SourceDirs,
          cfg \in PipelineCfgs : collection_post_path_copy(r, h, e, src, cfg)
    \/ \E r \in ReqProcs, b \in {"bad", "mets"}, h \in Headers, n \in 0..MaxUrls :
          deposit_edit_post_body(r, b, h, n)
    \/ \E r \in ReqProcs : deposit_edit_finalize(r)
    \/ \E r \in ReqProcs, cfg \in PipelineCfgs : finalize_or_mark_for_finalization(r, cfg)
    \/ \E r \in ReqProcs : deposit_edit_delete(r)
    \/ \E r \in ReqProcs, rep \in BOOLEAN, d \in {"none", "nofilename", "ok"},
          m \in Md5Headers, c \in UploadContents :
          deposit_media_upload(r, rep, d, m, c)
    \/ \E r \in ReqProcs, all \in BOOLEAN, f \in FileNames : deposit_media_delete(r, all, f)
    \/ \E r \in ReqProcs : deposit_state(r)
    \/ deliver_response

Spec == Init /\ [][Next]_vars

----------------------------------------------------------------------------
\* The status computation on its own: any tasks a deposit may have.

StTaskRecords ==
    {[exists |-> TRUE, attempted |-> a, completed |-> c, done |-> d, failed |-> f] :
        a \in 0..MaxStAttempted, c \in 0..MaxStAttempted, d \in BOOLEAN, f \in BOOLEAN}

StTaskInputs ==
    UNION {[1..n -> {t \in StTaskRecords : t.completed <= t.attempted}] : n \in 0..MaxStTasks}

InitStatus ==
    /\ spacePathExists = TRUE
    /\ uploadTemp = FALSE
    /\ depRow = "absent"
    /\ rff = FALSE
    /\ dct = FALSE
    /\ dirLoc = "none"
    /\ dirFiles = NoFiles
    /\ tasks = [w \in Workers |-> NoTask]
    /\ pc = [p \in Procs |-> IF IsWorker(p) THEN "unused" ELSE "idle"]
    /\ wN = [w \in Workers |-> 0]
    /\ wIdx = [w \in Workers |-> 0]
    /\ wCompleted = [w \in Workers |-> 0]
    /\ wSnapRff = [w \in Workers |-> FALSE]
    /\ fSnapRff = [p \in Procs |-> FALSE]
    /\ rOp = [r \in Handlers |-> "none"]
    /\ resp = NoResp
    /\ activation = [p \in Procs |-> "no"]
    /\ accepted = FALSE
    /\ aPre = [p \in Procs |-> NoFiles]
    /\ stTasks \in StTaskInputs
    /\ stResult = "none"
    /\ crDirs = {}
    /\ crLog = <<>>
    /\ crPending = [c \in Creators |-> NoPending]
    /\ space = [verified |-> FALSE, last_verified |-> 0]
    /\ backend = [access_protocol |-> "FS", manually_mounted |-> FALSE]
    /\ pathState = "dir"
    /\ now = 0
    /\ aipParent = [f \in AipFiles |-> "exists"]
    /\ aipRsync = [f \in AipFiles |-> "not_run"]
    /\ aipResult = [f \in AipFiles |-> "not_called"]

\* deposit_downloading_status is computed for the tasks stTasks
status_query ==
    /\ stResult = "none"
    /\ stResult' = deposit_downloading_status(stTasks)
    /\ UNCHANGED <<cfgVars, depVars, dirVars, tasks, pc, wVars, fSnapRff, rOp, resp,
                   activation, accepted, aPre, stTasks, crDirs, crLog, crPending, spaceVars, aipVars>>

NextStatus == status_query

SpecStatus == InitStatus /\ [][NextStatus]_vars

----------------------------------------------------------------------------
\* Creation of deposits in one space: the paths that
\* _create_deposit_directory_and_db_entry chooses. A deposit name is a
\* sequence of numbers; the suffix "_k" of a padded path is one more number.

CreateNames == {<<1>>, <<1, 1>>, <<2>>}

\* helpers.pad_destination_filepath_if_it_already_exists: the path itself
\* when nothing exists there, otherwise the original path with the first
\* suffix _1, _2, ... for which nothing exists.
RECURSIVE pad_attempt(_, _, _, _)
pad_attempt(dirs, filepath, original, attempt) ==
    IF filepath \in dirs
    THEN pad_attempt(dirs, original \o <<attempt + 1>>, original, attempt + 1)
    ELSE filepath

pad_destination_filepath_if_it_already_exists(dirs, filepath) ==
    pad_attempt(dirs, filepath, filepath, 0)

\* A path computed without padding.
create_deposit_path_without_padding(dirs, name) == name

\* lines 334-341: the path of a new deposit named name
create_deposit_path(dirs, name) ==
    pad_destination_filepath_if_it_already_exists(dirs, name)

\* _create_deposit_directory_and_db_entry for a deposit named name: os.mkdir
\* and shutil.copytree raise when the path exists, and then no row is created.
create_deposit_in_space(name) ==
    LET deposit_path == create_deposit_path(crDirs, name) IN
    /\ Len(crLog) < MaxCreates
    /\ IF deposit_path \in crDirs
       THEN /\ crLog' = Append(crLog, [name |-> name, path |-> deposit_path, created |-> FALSE])
            /\ UNCHANGED crDirs
       ELSE /\ crLog' = Append(crLog, [name |-> name, path |-> deposit_path, created |-> TRUE])
            /\ crDirs' = crDirs \cup {deposit_path}
    /\ UNCHANGED <<cfgVars, depVars, dirVars, tasks, pc, wVars, fSnapRff, rOp, resp,
                   activation, accepted, aPre, stTasks, stResult, crPending,
                   spaceVars, aipVars>>

InitCreate == Init /\ spacePathExists

NextCreate == \E name \in CreateNames : create_deposit_in_space(name)

SpecCreate == InitCreate /\ [][NextCreate]_vars

----------------------------------------------------------------------------
\* Two creation requests served at the same time: each evaluates the padding
\* (line 341) and later creates directory and row (lines 342-357).

\* A directory creation that succeeds on an existing path.
mkdir_raises_never(dirs, path) == FALSE

\* os.mkdir (line 345) and shutil.copytree (line 343) raise OSError when
\* the path exists
mkdir_raises(dirs, path) == path \in dirs

\* lines 334-341: request c computes the padded path for its deposit name
create_pad(c, name) ==
    /\ crPending[c] = NoPending
    /\ Len(crLog) + Cardinality({d \in Creators : crPending[d] # NoPending}) < MaxCreates
    /\ crPending' = [crPending EXCEPT ![c] = [name |-> name,
                                               path |-> create_deposit_path(crDirs, name)]]
    /\ UNCHANGED <<cfgVars, depVars, dirVars, tasks, pc, wVars, fSnapRff, rOp, resp,
                   activation, accepted, aPre, stTasks, stResult, crDirs, crLog,
                   spaceVars, aipVars>>

\* lines 342-357: request c creates the directory and then the row; when the
\* creation of the directory raises, the request ends without a row
create_make(c) ==
    LET name == crPending[c].name
        deposit_path == crPending[c].path
    IN
    /\ crPending[c] # NoPending
    /\ IF mkdir_raises(crDirs, deposit_path)
       THEN /\ crLog' = Append(crLog, [name |-> name, path |-> deposit_path, created |-> FALSE])
            /\ UNCHANGED crDirs
       ELSE /\ crLog' = Append(crLog, [name |-> name, path |-> deposit_path, created |-> TRUE])
            /\ crDirs' = crDirs \cup {deposit_path}
    /\ crPending' = [crPending EXCEPT ![c] = NoPending]
    /\ UNCHANGED <<cfgVars, depVars, dirVars, tasks, pc, wVars, fSnapRff, rOp, resp,
                   activation, accepted, aPre, stTasks, stResult, spaceVars, aipVars>>

InitCreateRace == Init /\ spacePathExists

NextCreateRace ==
    \/ \E c \in Creators, name \in CreateNames : create_pad(c, name)
    \/ \E c \in Creators : create_make(c)

SpecCreateRace == InitCreateRace /\ [][NextCreateRace]_vars

----------------------------------------------------------------------------
\* Verification of a Space by its protocol record (locations/models.py):
\* save() of a LocalFilesystem or NFS record calls verify() and then saves
\* the record.

MaxSaves == 5

Backends ==
    {[access_protocol |-> "FS", manually_mounted |-> FALSE]} \cup
    {[access_protocol |-> "NFS", manually_mounted |-> m] : m \in BOOLEAN}

PathStates == {"missing", "dir", "mount"}

\* os.path.isdir and os.path.ismount of a path in state st
isdir(st) == st # "missing"
ismount(st) == st = "mount"

\* LocalFilesystem.verify, lines 79-84: the Space object afterwards
LocalFilesystem_verify(sp, st, t) ==
    [verified |-> isdir(st), last_verified |-> t]

\* NFS.verify, lines 140-146: only a manually mounted space is probed
NFS_verify(sp, manually_mounted, st, t) ==
    IF manually_mounted
    THEN [verified |-> ismount(st), last_verified |-> t]
    ELSE sp

\* LocalFilesystem.save, lines 75-77
LocalFilesystem_save ==
    /\ backend.access_protocol = "FS"
    /\ now < MaxSaves
    /\ now' = now + 1
    /\ space' = LocalFilesystem_verify(space, pathState, now')
    /\ UNCHANGED <<cfgVars, depVars, dirVars, tasks, pc, wVars, fSnapRff, rOp, resp,
                   activation, accepted, aPre, stTasks, stResult, crDirs, crLog, crPending,
                   backend, pathState, aipVars>>

\* NFS.save, lines 136-138
NFS_save ==
    /\ backend.access_protocol = "NFS"
    /\ now < MaxSaves
    /\ now' = now + 1
    /\ space' = NFS_verify(space, backend.manually_mounted, pathState, now')
    /\ UNCHANGED <<cfgVars, depVars, dirVars, tasks, pc, wVars, fSnapRff, rOp, resp,
                   activation, accepted, aPre, stTasks, stResult, crDirs, crLog, crPending,
                   backend, pathState, aipVars>>

\* The environment: the directory at space.path is removed, created, mounted
\* or unmounted.
path_changes ==
    /\ \E st \in PathStates \ {pathState} : pathState' = st
    /\ UNCHANGED <<cfgVars, depVars, dirVars, tasks, pc, wVars, fSnapRff, rOp, resp,
                   activation, accepted, aPre, stTasks, stResult, crDirs, crLog, crPending,
                   space, backend, now, aipVars>>

InitVerify ==
    /\ spacePathExists = TRUE
    /\ uploadTemp = FALSE
    /\ depRow = "absent"
    /\ rff = FALSE
    /\ dct = FALSE
    /\ dirLoc = "none"
    /\ dirFiles = NoFiles
    /\ tasks = [w \in Workers |-> NoTask]
    /\ pc = [p \in Procs |-> IF IsWorker(p) THEN "unused" ELSE "idle"]
    /\ wN = [w \in Workers |-> 0]
    /\ wIdx = [w \in Workers |-> 0]
    /\ wCompleted = [w \in Workers |-> 0]
    /\ wSnapRff = [w \in Workers |-> FALSE]
    /\ fSnapRff = [p \in Procs |-> FALSE]
    /\ rOp = [r \in Handlers |-> "none"]
    /\ resp = NoResp
    /\ activation = [p \in Procs |-> "no"]
    /\ accepted = FALSE
    /\ aPre = [p \in Procs |-> NoFiles]
    /\ stTasks = <<>>
    /\ stResult = "none"
    /\ crDirs = {}
    /\ crLog = <<>>
    /\ crPending = [c \in Creators |-> NoPending]
    /\ space \in {[verified |-> v, last_verified |-> 0] : v \in BOOLEAN}
    /\ backend \in Backends
    /\ pathState \in PathStates
    /\ now = 0
    /\ aipParent = [f \in AipFiles |-> "exists"]
    /\ aipRsync = [f \in AipFiles |-> "not_run"]
    /\ aipResult = [f \in AipFiles |-> "not_called"]

NextVerify ==
    \/ LocalFilesystem_save
    \/ NFS_save
    \/ path_changes

SpecVerify == InitVerify /\ [][NextVerify]_vars

----------------------------------------------------------------------------
\* Storage of AIP files in a space (locations/models.py): store_aip of the
\* protocol record that Space.store_aip dispatches to.

ParentStates == {"missing", "exists", "blocked"}
RsyncOutcomes == {"exit_0", "exit_nonzero", "not_started"}

\* os.makedirs(os.path.dirname(destination)), lines 106-108: the errno of the
\* OSError it raises, 0 when it raises none; 17 is EEXIST, 13 is EACCES.
makedirs_errno(st) ==
    IF st = "missing" THEN 0 ELSE IF st = "exists" THEN 17 ELSE 13

\* ... and the directory afterwards
makedirs_parent(st) == IF st = "missing" THEN "exists" ELSE st

\* A store_aip that goes on to the copy whatever os.makedirs raised.
store_aip_copies_after_any_error(errno) == TRUE

\* lines 109-113: store_aip goes on to the rsync unless os.makedirs raised
\* an OSError other than errno 17
store_aip_copies(errno) == errno \in {0, 17}

\* The value of store_aip: -1 after the failed os.makedirs, otherwise None
\* whatever rsync's exit status was (subprocess.call returns it and the
\* value is dropped); an rsync that cannot be started raises out of the call.
store_aip_return(errno, outcome) ==
    IF ~store_aip_copies(errno) THEN "-1"
    ELSE IF outcome = "not_started" THEN "raised"
    ELSE "None"

\* lines 86-117 and 157-190, the same statements in both classes
store_aip(f, outcome) ==
    LET errno == makedirs_errno(aipParent[f]) IN
    /\ aipResult[f] = "not_called"
    /\ aipParent' = [aipParent EXCEPT ![f] = makedirs_parent(aipParent[f])]
    /\ aipRsync' = [aipRsync EXCEPT ![f] = IF store_aip_copies(errno) THEN outcome ELSE "not_run"]
    /\ aipResult' = [aipResult EXCEPT ![f] = store_aip_return(errno, outcome)]
    /\ UNCHANGED <<cfgVars, depVars, dirVars, tasks, pc, wVars, fSnapRff, rOp, resp,
                   activation, accepted, aPre, stTasks, stResult, crDirs, crLog, crPending,
                   spaceVars>>

\* Space.store_aip, lines 60-67, for a local filesystem space
LocalFilesystem_store_aip(f, outcome) ==
    /\ backend.access_protocol = "FS"
    /\ store_aip(f, outcome)

\* Space.store_aip, lines 60-67, for an NFS space
NFS_store_aip(f, outcome) ==
    /\ backend.access_protocol = "NFS"
    /\ store_aip(f, outcome)

InitStore ==
    /\ spacePathExists = TRUE
    /\ uploadTemp = FALSE
    /\ depRow = "absent"
    /\ rff = FALSE
    /\ dct = FALSE
    /\ dirLoc = "none"
    /\ dirFiles = NoFiles
    /\ tasks = [w \in Workers |-> NoTask]
    /\ pc = [p \in Procs |-> IF IsWorker(p) THEN "unused" ELSE "idle"]
    /\ wN = [w \in Workers |-> 0]
    /\ wIdx = [w \in Workers |-> 0]
    /\ wCompleted = [w \in Workers |-> 0]
    /\ wSnapRff = [w \in Workers |-> FALSE]
    /\ fSnapRff = [p \in Procs |-> FALSE]
    /\ rOp = [r \in Handlers |-> "none"]
    /\ resp = NoResp
    /\ activation = [p \in Procs |-> "no"]
    /\ accepted = FALSE
    /\ aPre = [p \in Procs |-> NoFiles]
    /\ stTasks = <<>>
    /\ stResult = "none"
    /\ crDirs = {}
    /\ crLog = <<>>
    /\ crPending = [c \in Creators |-> NoPending]
    /\ space = [verified |-> TRUE, last_verified |-> 0]
    /\ backend \in Backends
    /\ pathState = "mount"
    /\ now = 0
    /\ aipParent \in [AipFiles -> ParentStates]
    /\ aipRsync = [f \in AipFiles |-> "not_run"]
    /\ aipResult = [f \in AipFiles |-> "not_called"]

NextStore ==
    \/ \E f \in AipFiles, outcome \in RsyncOutcomes : LocalFilesystem_store_aip(f, outcome)
    \/ \E f \in AipFiles, outcome \in RsyncOutcomes : NFS_store_aip(f, outcome)

SpecStore == InitStore /\ [][NextStore]_vars

----------------------------------------------------------------------------
\* One batch download on its own: _fetch_content of the first worker, for a
\* deposit that exists, over 1..MaxBatchUrls URLs, with what it calls at
\* its end.

BatchWorker == 1

InitBatch ==
    /\ spacePathExists = TRUE
    /\ uploadTemp = FALSE
    /\ depRow = "present"
    /\ rff \in BOOLEAN
    /\ dct = FALSE
    /\ dirLoc \in {"deposit", "removed"}
    /\ dirFiles = NoFiles
    /\ tasks = [w \in Workers |-> NoTask]
    /\ pc = [p \in Procs |-> IF p = BatchWorker THEN "spawned"
                              ELSE IF IsWorker(p) THEN "unused" ELSE "idle"]
    /\ wN \in {[w \in Workers |-> IF w = BatchWorker THEN n ELSE 0] : n \in 1..MaxBatchUrls}
    /\ wIdx = [w \in Workers |-> 0]
    /\ wCompleted = [w \in Workers |-> 0]
    /\ wSnapRff = [w \in Workers |-> FALSE]
    /\ fSnapRff = [p \in Procs |-> FALSE]
    /\ rOp = [r \in Handlers |-> "none"]
    /\ resp = NoResp
    /\ activation = [p \in Procs |-> "no"]
    /\ accepted = FALSE
    /\ aPre = [p \in Procs |-> NoFiles]
    /\ stTasks = <<>>
    /\ stResult = "none"
    /\ crDirs = {}
    /\ crLog = <<>>
    /\ crPending = [c \in Creators |-> NoPending]
    /\ space = [verified |-> FALSE, last_verified |-> 0]
    /\ backend = [access_protocol |-> "FS", manually_mounted |-> FALSE]
    /\ pathState = "dir"
    /\ now = 0
    /\ aipParent = [f \in AipFiles |-> "exists"]
    /\ aipRsync = [f \in AipFiles |-> "not_run"]
    /\ aipResult = [f \in AipFiles |-> "not_called"]

NextBatch ==
    \/ fetch_content_start(BatchWorker)
    \/ \E ok \in BOOLEAN : fetch_content_url(BatchWorker, ok)
    \/ fetch_content_save(BatchWorker)
    \/ \E cfg \in PipelineCfgs : fetch_content_check(BatchWorker, cfg)
    \/ activate_move(BatchWorker)
    \/ \E o \in PipelineResponses : activate_call(BatchWorker, o)

SpecBatch == InitBatch /\ [][NextBatch]_vars

----------------------------------------------------------------------------
\* Two requests for one deposit served at the same time (a second handler
\* next to the one of ReqProcs). The deposit exists, is not submitted and
\* not flagged, holds one file, and its only batch, of no URLs, has ended.

InitFlag ==
    /\ spacePathExists = TRUE
    /\ uploadTemp = FALSE
    /\ depRow = "present"
    /\ rff = FALSE
    /\ dct = FALSE
    /\ dirLoc = "deposit"
    /\ dirFiles = [NoFiles EXCEPT ![0] = "b1"]
    /\ tasks = [w \in Workers |-> IF w = BatchWorker
                                   THEN [exists |-> TRUE, attempted |-> 0, completed |-> 0,
                                         done |-> TRUE, failed |-> FALSE]
                                   ELSE NoTask]
    /\ pc = [p \in Procs |-> IF p = BatchWorker THEN "done"
                              ELSE IF IsWorker(p) THEN "unused" ELSE "idle"]
    /\ wN = [w \in Workers |-> 0]
    /\ wIdx = [w \in Workers |-> 0]
    /\ wCompleted = [w \in Workers |-> 0]
    /\ wSnapRff = [w \in Workers |-> FALSE]
    /\ fSnapRff = [p \in Procs |-> FALSE]
    /\ rOp = [r \in Handlers |-> "none"]
    /\ resp = NoResp
    /\ activation = [p \in Procs |-> "no"]
    /\ accepted = FALSE
    /\ aPre = [p \in Procs |-> NoFiles]
    /\ stTasks = <<>>
    /\ stResult = "none"
    /\ crDirs = {}
    /\ crLog = <<>>
    /\ crPending = [c \in Creators |-> NoPending]
    /\ space = [verified |-> FALSE, last_verified |-> 0]
    /\ backend = [access_protocol |-> "FS", manually_mounted |-> FALSE]
    /\ pathState = "dir"
    /\ now = 0
    /\ aipParent = [f \in AipFiles |-> "exists"]
    /\ aipRsync = [f \in AipFiles |-> "not_run"]
    /\ aipResult = [f \in AipFiles |-> "not_called"]

NextFlag ==
    \/ \E w \in Workers : fetch_content_start(w)
    \/ \E w \in Workers, ok \in BOOLEAN : fetch_content_url(w, ok)
    \/ \E w \in Workers : fetch_content_save(w)
    \/ \E w \in Workers, cfg \in PipelineCfgs : fetch_content_check(w, cfg)
    \/ \E p \in Procs : activate_move(p)
    \/ \E p \in Procs, o \in PipelineResponses : activate_call(p, o)
    \/ \E r \in Handlers, b \in {"bad", "mets"}, h \in Headers, n \in 0..MaxUrls :
          deposit_edit_post_body(r, b, h, n)
    \/ \E r \in Handlers : deposit_edit_finalize(r)
    \/ \E r \in Handlers, cfg \in PipelineCfgs : finalize_or_mark_for_finalization(r, cfg)
    \/ deliver_response

SpecFlag == InitFlag /\ [][NextFlag]_vars

----------------------------------------------------------------------------
\* Properties.

InActivate(p) == pc[p] \in {"act_move", "act_call"}

\* C1: two batch workers of a deposit that finish in an overlapping window
\* invoke Activate exactly once: never are two workers inside Activate at
\* the same time.
C1_ActivateExactlyOnce ==
    Cardinality({w \in Workers : InActivate(w)}) <= 1

\* C2: deferred finalization happens. When a worker evaluates its condition
\* with the deposit flagged ready_for_finalization in the store, every batch
\* finished with completed = attempted and the directory non-empty, it
\* invokes Activate.
C2_DeferredFinalizationHappens ==
    [][\A w \in Workers :
        ( /\ pc[w] = "check"
          /\ pc'[w] # "check"
          /\ get_deposit
          /\ rff
          /\ DepositStatus = "complete"
          /\ \A v \in Workers : pc[v] \notin {"spawned", "fetch"}
          /\ dirLoc = "deposit"
          /\ DirNonEmpty )
        => activation'[w] # "no"]_vars

\* C3: a finishing worker of a stored deposit triggers finalization (goes on
\* into _finalize_if_not_empty) if and only if the deposit is
\* flagged ready_for_finalization in the store at that moment and the
\* aggregate downloading status is complete.
C3_FinalizeIffReadyAndComplete ==
    [][\A w \in Workers :
        (pc[w] = "check" /\ pc'[w] # "check" /\ get_deposit)
        => ((pc'[w] # "done") <=> (rff /\ DepositStatus = "complete"))]_vars

\* C4: the DownloadTask of a batch is recorded before the request that
\* started the batch returns: a started batch always has its task, with
\* attempted = number of URLs, so the status is not complete while a batch
\* with URLs is still running.
C4_TaskRecordedSynchronously ==
    \A w \in Workers :
        pc[w] \in {"spawned", "fetch"}
        => /\ tasks[w].exists
           /\ tasks[w].attempted = wN[w]
           /\ (wN[w] > 0 => DepositStatus # "complete")

\* C5: the aggregate status is complete without tasks, failed when a task is
\* flagged failed, incomplete when none is flagged failed and one has
\* completed < attempted, complete otherwise.
C5_DownloadingStatus ==
    stResult # "none" =>
        stResult =
            (IF Len(stTasks) = 0 THEN "complete"
             ELSE IF \E i \in 1..Len(stTasks) : stTasks[i].failed THEN "failed"
             ELSE IF \E i \in 1..Len(stTasks) : stTasks[i].completed < stTasks[i].attempted
                  THEN "incomplete"
             ELSE "complete")

C5_Witness ==
    /\ stResult = "failed"
    /\ Len(stTasks) = MaxStTasks
    /\ \E i \in 1..Len(stTasks) : ~stTasks[i].failed /\ stTasks[i].completed < stTasks[i].attempted

\* The requests that change a deposit.
DepositMutatingOps ==
    {"media_post", "media_put", "media_delete", "finalize", "edit_delete", "edit_post_body"}

\* C6: a content-mutating request that arrives for a deposit whose content
\* has been relocated into the watch directory is answered 400 and changes
\* neither the deposit row, nor its tasks, nor the relocated content.
C6_SubmittedDepositImmutable ==
    [][\A r \in ReqProcs :
        LET arrives == /\ pc[r] = "idle"
                       /\ resp = NoResp
                       /\ (resp' # NoResp \/ pc'[r] # "idle")
            op == IF resp' # NoResp THEN resp'.op ELSE rOp'[r]
        IN  (get_deposit /\ dirLoc = "watch" /\ arrives /\ op \in DepositMutatingOps)
            => /\ resp'.status = 400
               /\ pc'[r] = "idle"
               /\ UNCHANGED <<depVars, dirVars, tasks>>]_vars

C6_Witness ==
    /\ dirLoc = "watch"
    /\ accepted
    /\ resp.op = "edit_delete"
    /\ resp.status = 400

\* C7: when the approval request fails at the transport level, Activate moves
\* the directory back to the deposit path with the entries it had when it was
\* moved, its caller gets an error, and the deposit is neither submitted nor
\* stamped with a completion time.
C7_TransportFailureMovesBack ==
    [][\A p \in Procs :
        (pc[p] = "act_call" /\ activation'[p] = "transport_failure")
        => /\ dirLoc' = "deposit"
           /\ dirFiles' = aPre[p]
           /\ ~has_been_submitted_for_processing'
           /\ ~dct'
           /\ IF IsWorker(p) THEN pc'[p] = "dead" ELSE resp'.status = 500]_vars

C7_Witness ==
    \E w \in Workers :
        /\ activation[w] = "transport_failure"
        /\ dirLoc = "deposit"
        /\ DirNonEmpty
        /\ ~dct

\* C8: whenever no activation is in flight, the directory is relocated into
\* the watch directory if and only if the deposit was accepted by a non-error
\* approval outcome.
C8_RelocatedIffSubmitted ==
    (\A p \in Procs : ~InActivate(p)) => (dirLoc = "watch" <=> accepted)

C10_FailedFinalizeRetryable ==
    [][\A p \in Procs :
        ( /\ pc[p] = "act_call"
          /\ activation'[p] \in {"transport_failure", "error_json"}
          /\ (IsWorker(p) \/ rOp[p] = "finalize") )
        => (~dct' /\ dirLoc' = "deposit")]_vars

\* Process p is about to call _finalize_if_not_empty: a handler from
\* _finalize_or_mark_for_finalization, a worker from the end of its batch.
FinalizeCalled(p) ==
    IF IsWorker(p)
    THEN pc[p] = "check" /\ fetch_content_finalize_condition(p)
    ELSE pc[p] = "finalize" /\ DepositStatus = "complete"

\* C11: a call of _finalize_if_not_empty is rejected as empty (400 'This
\* deposit contains no files' to a request, False to a worker) if and only if
\* the deposit directory has zero entries at that moment; on rejection
\* Activate is not invoked and the row, the directory and the tasks are
\* unchanged.
C11_EmptyRejectedIffNoEntries ==
    [][\A p \in Procs :
        (FinalizeCalled(p) /\ pc'[p] # pc[p])
        => LET rejected == IF IsWorker(p) THEN pc'[p] = "fin_empty"
                           ELSE resp' = Response("finalize", 400)
           IN  /\ rejected <=> (get_deposit /\ dirLoc = "deposit" /\ ~DirNonEmpty)
               /\ rejected => /\ activation'[p] = "no"
                               /\ UNCHANGED <<depVars, dirVars, tasks>>]_vars

C11_Witness ==
    /\ resp = Response("finalize", 400)
    /\ dirLoc = "deposit"
    /\ ~DirNonEmpty
    /\ get_deposit

\* C12: a collection POST of a descriptor with a name, zero content URLs and
\* In-Progress: false creates the deposit, attempts finalization at once and
\* is answered 400 (empty deposit).
C12_DescriptorOnlyFinalizeAnswersEmpty ==
    [][( /\ depRow = "absent"
         /\ depRow' = "present"
         /\ rff'
         /\ \A w \in Workers : pc'[w] = "spawned" => wN'[w] = 0 )
       => resp'.status = 400]_vars

C14_ChecksumVerification ==
    [][resp'.op \in {"media_post", "media_put"} =>
       \A r \in ReqProcs, rp \in BOOLEAN, m \in Md5Headers \ {"none"}, c \in UploadContents :
        (get_deposit /\ deposit_media_upload(r, rp, "ok", m, c))
        => IF m # get_file_md5_checksum(c)
           THEN /\ resp'.status = 400
                /\ UNCHANGED dirVars
                /\ ~uploadTemp'
           ELSE (deposit_guard_status = 0 /\ (rp <=> FileExists(0)))
                => /\ resp'.status = (IF rp THEN 204 ELSE 201)
                   /\ dirFiles'[0] = c
                   /\ ~uploadTemp']_vars

C14_Witness ==
    /\ resp = Response("media_put", 204)
    /\ dirFiles[0] = "b2"
    /\ dirLoc = "deposit"

\* C15: an add (POST media) of a filename that exists in the deposit
\* directory and a replace (PUT media) of one that does not are answered 400;
\* an upload succeeds only if the file is absent (add) or present (replace);
\* an upload that does not succeed leaves the directory unchanged.
C15_UploadPreconditions ==
    [][resp'.op \in {"media_post", "media_put"} =>
       \A r \in ReqProcs, rp \in BOOLEAN, d \in {"none", "nofilename", "ok"},
          m \in Md5Headers, c \in UploadContents :
        (deposit_guard_status = 0 /\ deposit_media_upload(r, rp, d, m, c))
        => LET succeeded == resp'.status = (IF rp THEN 204 ELSE 201)
           IN  /\ (d = "ok" /\ rp /\ ~FileExists(0)) => resp' = Response("media_put", 400)
               /\ (d = "ok" /\ ~rp /\ FileExists(0)) => resp' = Response("media_post", 400)
               /\ succeeded => (rp <=> FileExists(0))
               /\ ~succeeded => UNCHANGED dirVars]_vars

C15_Witness ==
    /\ resp = Response("media_put", 400)
    /\ get_deposit
    /\ dirLoc = "deposit"
    /\ dirFiles[0] = "absent"
    /\ DirNonEmpty

\* The requests on a deposit.
DepositOps == DepositMutatingOps \cup {"state"}

\* C16: DELETE on the edit IRI succeeds only for a deposit that is not
\* submitted; it then removes the directory and the row, and every later
\* request on the deposit is answered 404.
C16_DeleteThenNotFound ==
    [][/\ (resp = NoResp /\ resp' = Response("edit_delete", 204))
          => /\ get_deposit /\ ~has_been_submitted_for_processing
             /\ dirLoc' = "removed"
             /\ dirFiles' = NoFiles
             /\ depRow' = "deleted"
       /\ depRow = "deleted"
          => /\ depRow' = "deleted"
             /\ \A r \in ReqProcs : pc'[r] = "idle"
             /\ (resp = NoResp /\ resp'.op \in DepositOps) => resp'.status = 404]_vars

C16_Witness ==
    /\ depRow = "deleted"
    /\ dirLoc = "removed"
    /\ resp = Response("finalize", 404)

\* A batch download of the deposit is in flight: its worker was started and
\* has not yet saved its completed task.
BatchInFlight == \E w \in Workers : pc[w] \in {"spawned", "fetch"}

\* C17: a DELETE of a deposit with a batch download in flight is refused with
\* a conflict error (400) and removes neither the directory nor the row.
C17_DeleteRefusedWhileBatchInFlight ==
    [][(resp = NoResp /\ resp'.op = "edit_delete" /\ get_deposit /\ BatchInFlight)
       => /\ resp'.status = 400
          /\ UNCHANGED <<depRow, dirVars>>]_vars

\* C18: after any sequence of creations in one space, repeated names
\* included, every creation succeeded and the deposits have pairwise
\* distinct directories, each existing in the space.
C18_DistinctDepositDirectories ==
    /\ \A i \in DOMAIN crLog :
          /\ crLog[i].created
          /\ crLog[i].path \in crDirs
          /\ \A j \in DOMAIN crLog : i # j => crLog[i].path # crLog[j].path
    /\ Cardinality(crDirs) = Len(crLog)

C18_Witness ==
    /\ Len(crLog) = MaxCreates
    /\ \E i, j \in DOMAIN crLog : i < j /\ crLog[i].name = crLog[j].name
    /\ \E i \in DOMAIN crLog : crLog[i].name = <<1, 1>> /\ crLog[i].path = <<1, 1, 1>>

\* C19: while the space's root path does not exist, no creation request
\* (descriptor POST or path-copy POST) creates a deposit directory or a
\* deposit row.
C19_NoCreateWithoutSpacePath ==
    [][~spacePathExists => (depRow' = "absent" /\ dirLoc' = "none")]_vars

NoDepositSideEffect ==
    /\ UNCHANGED <<depVars, dirVars, tasks, wVars>>
    /\ \A w \in Workers : pc'[w] = pc[w]

\* C21: a request rejected by validation has no side effect and is answered
\* as a precondition failure: a collection POST without the In-Progress
\* header (412), without body and parameters (412), with an unparsable
\* descriptor (412) or with a descriptor without name (400), and an edit POST
\* with an unparsable descriptor (412 or 400).
C21_ValidationRejectsWithoutSideEffect ==
    [][/\ resp'.op = "collection_post" =>
            \A r \in ReqProcs, h \in Headers, b \in {"none", "bad", "noname"}, q \in {"none"} :
                collection_post_rejected(r, h, b, q)
                => /\ NoDepositSideEffect
                   /\ resp'.status = (IF h # "none" /\ b = "noname" THEN 400 ELSE 412)
       /\ resp'.op = "edit_post_body" =>
            \A r \in ReqProcs, h \in Headers, n \in 0..MaxUrls :
                (deposit_guard_status = 0 /\ deposit_edit_post_body(r, "bad", h, n))
                => /\ NoDepositSideEffect
                   /\ resp'.status \in {400, 412}]_vars

\* The probe of the backend fails: the root path of a local filesystem space
\* is no directory, that of an NFS space is no mount point.
BackendDown ==
    IF backend.access_protocol = "FS" THEN ~isdir(pathState) ELSE ~ismount(pathState)

\* C22: for every protocol (local filesystem, NFS manually mounted or not)
\* and every prior value of the Space's verified flag, verify() on a backend
\* whose root path does not exist or is not mounted leaves the Space with
\* verified = false.
C22_VerifyDownLeavesUnverified ==
    [][(now' # now /\ BackendDown) => space'.verified = FALSE]_vars

\* The mount probe of a save: directory existence for a local filesystem
\* space, mount-table membership for an NFS space.
MountProbe ==
    IF backend.access_protocol = "FS" THEN isdir(pathState) ELSE ismount(pathState)

\* C29: after every save of a Space's protocol record (LocalFilesystem or
\* NFS) the Space's verified flag equals the result of the mount probe made
\* during that save and last_verified is the time of that probe, so a stale
\* verified = true never survives a save made while the mount is down.
C29_SaveRederivesVerified ==
    [][now' # now => /\ space'.verified = MountProbe
                     /\ space'.last_verified = now']_vars

\* store_aip is called for the file f in this step.
StoreAipCalled(f) == aipResult[f] = "not_called" /\ aipResult'[f] # "not_called"

\* C30: store_aip creates the missing parent directories of the destination
\* and goes on to the copy; if they exist already it goes on to the copy;
\* if their creation fails for another reason it returns its error value
\* and runs no copy.
C30_StoreAipParentDirectories ==
    [][\A f \in AipFiles :
          StoreAipCalled(f) =>
              /\ aipParent[f] = "missing"
                    => aipParent'[f] = "exists" /\ aipRsync'[f] # "not_run"
              /\ aipParent[f] = "exists"
                    => aipRsync'[f] # "not_run" /\ aipResult'[f] # "-1"
              /\ aipParent[f] = "blocked"
                    => aipResult'[f] = "-1" /\ aipRsync'[f] = "not_run"]_vars

\* One store_aip failed on its directory and ran no copy, another one copied.
C30_Witness ==
    /\ \E f \in AipFiles :
          aipParent[f] = "blocked" /\ aipResult[f] = "-1" /\ aipRsync[f] = "not_run"
    /\ \E f \in AipFiles : aipResult[f] = "None" /\ aipRsync[f] = "exit_0"

\* The batch of worker w has finished with fewer successes than attempted
\* URLs and its task is not flagged failed.
PartialTask(w) ==
    /\ tasks[w].exists
    /\ tasks[w].done
    /\ tasks[w].completed < tasks[w].attempted
    /\ ~tasks[w].failed

\* C23: once a batch has finished with fewer successes than attempted URLs
\* and its task is not flagged failed, no later operation changes the task,
\* the deposit's downloading status is 'incomplete' from then on, and a
\* finalize request for that deposit never calls the finalization itself.
C23_PartialBatchStaysIncomplete ==
    [][\A w \in Workers :
          PartialTask(w) =>
              /\ tasks'[w] = tasks[w]
              /\ depRow = "present" => DepositStatus = "incomplete"
              /\ \A r \in ReqProcs :
                    /\ ~FinalizeCalled(r)
                    /\ resp'.op = "state" /\ resp'.status = 200
                          => resp'.term = "incomplete"
                    /\ pc[r] = "finalize" /\ pc'[r] = "idle"
                          => rff' /\ activation'[r] = "no" /\ dirLoc' = dirLoc]_vars

\* A batch has ended short of its URLs and a finalize request for the
\* deposit has been answered.
C23_Witness ==
    /\ \E w \in Workers : PartialTask(w)
    /\ depRow = "present"
    /\ rff
    /\ resp.op = "finalize"

\* Activate of process p has moved the directory and has not returned yet.
ActivateInFlight(p) == pc[p] = "act_call"

\* Process q reads or writes the deposit directory in this step: a worker
\* moves a downloaded file into it (line 87), a process lists it for a
\* finalization (_finalize_if_not_empty), moves it (line 497), or a handler
\* changes it.
DirectoryAccessBy(q) ==
    \/ IsWorker(q) /\ pc[q] = "fetch" /\ wIdx'[q] = wIdx[q] + 1
    \/ FinalizeCalled(q) /\ pc'[q] # pc[q]
    \/ pc[q] = "act_move" /\ pc'[q] # "act_move"
    \/ ~IsWorker(q) /\ pc[q] = "idle" /\ resp' # NoResp /\ dirVars' # dirVars

\* C24: the directory move and the approval request of Activate are a
\* critical section per deposit: while they are in flight for one process,
\* no other operation (upload, delete, another finalization, a batch worker
\* moving a downloaded file) reads or writes the deposit directory.
C24_ActivateCriticalSection ==
    [][\A p \in Procs :
          ActivateInFlight(p) => \A q \in Procs \ {p} : ~DirectoryAccessBy(q)]_vars

\* The files downloads have moved into the deposit directory.
Downloaded == {f \in FileNames : dirFiles[f] = "dl"}

\* C25: a batch over n URLs is best-effort: every URL is attempted whatever
\* became of the earlier ones, a success moves exactly its file into the
\* deposit directory, a failure ends nothing, and at the end of the batch
\* the task has completed = the number of successful URLs, attempted = n
\* unchanged, and a completion time.
C25_BestEffortBatch ==
    [][\A w \in Workers :
          /\ (pc[w] = "fetch" /\ wIdx'[w] = wIdx[w] + 1)
                => /\ pc'[w] = "fetch"
                   /\ tasks' = tasks
                   /\ \/ /\ wCompleted'[w] = wCompleted[w] + 1
                         /\ dirFiles[wIdx[w] + 1] = "absent"
                         /\ dirFiles' = [dirFiles EXCEPT ![wIdx[w] + 1] = "dl"]
                      \/ /\ wCompleted'[w] = wCompleted[w]
                         /\ dirFiles' = dirFiles
          /\ (pc[w] = "fetch" /\ pc'[w] # "fetch")
                => /\ wIdx[w] = wN[w]
                   /\ tasks[w].attempted = wN[w]
                   /\ tasks'[w].attempted = tasks[w].attempted
                   /\ tasks'[w].completed = Cardinality(Downloaded)
                   /\ tasks'[w].done]_vars

\* A batch of three URLs has ended: the first download failed, the two
\* after it succeeded.
C25_Witness ==
    /\ tasks[BatchWorker].done
    /\ tasks[BatchWorker].attempted = 3
    /\ tasks[BatchWorker].completed = 2
    /\ dirFiles[1] = "absent"
    /\ Downloaded = {2, 3}

\* C26: every download task has 0 <= completed <= attempted at all times,
\* and its attempted count never changes after the task is created.
C26_TaskCounters ==
    [][\A w \in Workers :
          tasks'[w].exists
              => /\ 0 <= tasks'[w].completed
                 /\ tasks'[w].completed <= tasks'[w].attempted
                 /\ tasks[w].exists => tasks'[w].attempted = tasks[w].attempted]_vars

\* A batch has ended with some, but not all, of its downloads completed.
C26_Witness ==
    /\ tasks[BatchWorker].done
    /\ 0 < tasks[BatchWorker].completed
    /\ tasks[BatchWorker].completed < tasks[BatchWorker].attempted

\* C27: each successful download increments the stored completed counter of
\* its task, so that at every moment of a running batch a reader of the task
\* sees completed equal to the number of files the batch has moved into the
\* deposit directory so far.
C27_StoredCompletedFollowsDownloads ==
    \A w \in Workers :
        (tasks[w].exists /\ pc[w] = "fetch") => tasks[w].completed = wCompleted[w]

\* C28: a finalize request (edit POST, empty body, In-Progress: false) on an
\* unsubmitted, non-empty deposit invokes Activate within the request, and
\* leaves ready_for_finalization alone, when the downloading status is
\* complete; otherwise it sets ready_for_finalization, does not invoke
\* Activate and is answered with a deposit receipt.
C28_FinalizeNowOrMark ==
    [][\A r \in ReqProcs :
          ( /\ pc[r] = "finalize"
            /\ pc'[r] # "finalize"
            /\ get_deposit
            /\ ~has_been_submitted_for_processing
            /\ dirLoc = "deposit"
            /\ DirNonEmpty )
          => IF DepositStatus = "complete"
             THEN activation'[r] # "no" /\ rff' = rff
             ELSE /\ rff'
                  /\ activation'[r] = "no"
                  /\ resp'.op = "finalize"
                  /\ resp'.status \in {200, 201, 203}]_vars

\* C31: store_aip fails with its transfer error whenever the copy
\* subprocess reports a non-zero exit status, and reports success only when
\* the copy exited with status zero.
C31_StoreAipReportsCopyFailure ==
    [][\A f \in AipFiles :
          StoreAipCalled(f) =>
              /\ aipRsync'[f] = "exit_nonzero" => aipResult'[f] = "-1"
              /\ aipResult'[f] = "None" => aipRsync'[f] = "exit_0"]_vars

\* C32: Activate resolves the one currently-processing Location of the
\* pipeline and goes on to the move; when the pipeline has none or more than
\* one, Activate fails (500 to a request, an exception in a worker) before
\* the directory is moved, and the deposit is left unchanged and not
\* submitted.
C32_ProcessingLocationResolved ==
    [][\A p \in Procs :
        /\ (activation[p] \notin {"no_location", "many_locations"}
              /\ activation'[p] \in {"no_location", "many_locations"})
           => /\ ~InActivate(p)'
              /\ dirLoc' # "watch"
              /\ dirLoc # "none" => UNCHANGED <<depVars, dirVars>>
              /\ UNCHANGED <<dct, accepted>>
              /\ ~has_been_submitted_for_processing'
              /\ IF IsWorker(p) THEN pc'[p] = "dead" ELSE resp'.status = 500
        /\ (activation[p] = "no" /\ activation'[p] = "configured")
           => pc'[p] = "act_move"]_vars

\* A finalize request met a pipeline with several processing locations and
\* was answered 500; the deposit is where it was.
C32_Witness ==
    /\ \E r \in ReqProcs : activation[r] = "many_locations"
    /\ resp.op = "finalize"
    /\ resp.status = 500
    /\ dirLoc = "deposit"
    /\ DirNonEmpty
    /\ ~dct

\* C33: a DELETE on the media IRI of an unsubmitted deposit that names a
\* file removes exactly that file (204), or is answered 404 and changes
\* nothing when the file does not exist; without a file name it removes
\* every entry (204); the directory itself, the row, the finalization flag
\* and the download tasks are unchanged in all cases.
C33_MediaDeleteFrame ==
    [][resp'.op = "media_delete" =>
          \A r \in ReqProcs, all \in BOOLEAN, f \in FileNames :
              ( /\ deposit_guard_status = 0
                /\ dirLoc = "deposit"
                /\ deposit_media_delete(r, all, f) )
              => /\ UNCHANGED <<dirLoc, depVars, tasks>>
                 /\ IF all
                    THEN dirFiles' = NoFiles /\ resp'.status = 204
                    ELSE IF dirFiles[f] # "absent"
                    THEN /\ dirFiles'[f] = "absent"
                         /\ \A g \in FileNames \ {f} : dirFiles'[g] = dirFiles[g]
                         /\ resp'.status = 204
                    ELSE dirFiles' = dirFiles /\ resp'.status = 404]_vars

\* A DELETE of one file has been answered 204 and another file is still in
\* the directory.
C33_Witness ==
    /\ resp.op = "media_delete"
    /\ resp.status = 204
    /\ depRow = "present"
    /\ dirLoc = "deposit"
    /\ DirNonEmpty
    /\ \E f \in FileNames : dirFiles[f] = "absent"

\* C34: over all finalization triggers of a deposit, finalize requests and
\* batch workers in any interleaving, the deposit is approved at most once,
\* and no trigger is running Activate on a deposit whose directory another
\* trigger has moved to the watch directory.
C34_FinalizationTriggersExclusive ==
    [][\A p \in Procs :
          /\ pc'[p] = "act_move" => dirLoc' # "watch"
          /\ (accepted /\ pc[p] = "act_call" /\ pc'[p] # "act_call")
                => activation'[p] # "approved"]_vars

\* C35: ready_for_finalization is monotone: once it is true for a deposit,
\* no later write by a request or a worker, the whole-row save that stamps
\* deposit_completion_time included, makes it false again.
C35_ReadyForFinalizationMonotone ==
    [][rff => rff']_vars

\* C36: two creation requests with the same name that interleave (both
\* evaluate the padding before either creates its directory) never end with
\* two deposit rows sharing one directory: they get distinct directories, or
\* one of them fails without a row.
C36_InterleavedCreatesShareNoDirectory ==
    /\ \A i, j \in DOMAIN crLog :
          (i # j /\ crLog[i].created /\ crLog[j].created) => crLog[i].path # crLog[j].path
    /\ \A i \in DOMAIN crLog : crLog[i].created => crLog[i].path \in crDirs
    /\ Cardinality({i \in DOMAIN crLog : crLog[i].created}) = Cardinality(crDirs)

\* Two requests held the same padded path: the first created its deposit
\* there, the second ended without a row.
C36_Witness ==
    \E i, j \in DOMAIN crLog :
        /\ i < j
        /\ crLog[i].name = crLog[j].name
        /\ crLog[i].path = crLog[j].path
        /\ crLog[i].created
        /\ ~crLog[j].created

\* C37: a path-copy deposit copies the source directory, creates one
\* deposit and invokes Activate once; when Activate reports an error the
\* request is answered 500 and the new row and its directory, back at the
\* deposit path, remain as an unsubmitted deposit; otherwise the answer is
\* a 200 receipt for the new deposit.
C37_PathCopyDeposit ==
    [][\A r \in ReqProcs :
          /\ (pc[r] = "idle" /\ depRow = "absent" /\ depRow' = "present"
                /\ (resp'.op = "pathcopy" \/ rOp'[r] = "pathcopy"))
             => /\ activation'[r] # "no"
                /\ dirLoc' = "deposit"
                /\ \A h \in Headers, src \in SourceDirs, cfg \in PipelineCfgs :
                      collection_post_path_copy(r, h, TRUE, src, cfg) => dirFiles' = src
                /\ pc'[r] = "idle" => resp'.status = 500
          /\ (rOp[r] = "pathcopy" /\ pc[r] = "act_call" /\ pc'[r] = "idle")
             => /\ depRow' = "present"
                /\ \/ /\ resp'.status = 200
                      /\ dirLoc' = "watch"
                   \/ /\ resp'.status = 500
                      /\ dirLoc' = "deposit"
                      /\ ~has_been_submitted_for_processing'
                      /\ ~dct']_vars

====
